---------------------------- MODULE Spec2Model ----------------------------
(***************************************************************************)
(* A model of update_version.py, the PEHint version update script.         *)
(*                                                                         *)
(* Text is modelled character by character: a str is a sequence of         *)
(* one-character strings.  The regular expressions of the script, the      *)
(* substring test, int(), str.split and the f-string formatting of the     *)
(* version numbers are operators computed on these sequences.  A file is   *)
(* a record [exists, data]; read_text and write_text do the newline        *)
(* translation of Python's text mode.                                      *)
(***************************************************************************)
EXTENDS Integers, Sequences, FiniteSets, TLC

(***************************************************************************)
(* Bounds of the model.                                                    *)
(***************************************************************************)
\* longest version string enumerated by InitParse
MaxVerLen == 6
\* most fragments a header document of InitHeader is made of
MaxHdrPieces == 3
\* most fragments a build-config document of InitCmake is made of
MaxCmakePieces == 4
\* most successive calls of an updater in the call-level specifications
MaxCalls == 2

(***************************************************************************)
(* Characters and strings.                                                 *)
(***************************************************************************)
Digits == {"0", "1", "2", "3", "4", "5", "6", "7", "8", "9"}

Whitespace == {" ", "\t", "\n", "\r", "\f"}

DigitVal(c) ==
    CASE c = "0" -> 0 [] c = "1" -> 1 [] c = "2" -> 2 [] c = "3" -> 3
      [] c = "4" -> 4 [] c = "5" -> 5 [] c = "6" -> 6 [] c = "7" -> 7
      [] c = "8" -> 8 [] c = "9" -> 9

DigitChar(d) ==
    CASE d = 0 -> "0" [] d = 1 -> "1" [] d = 2 -> "2" [] d = 3 -> "3"
      [] d = 4 -> "4" [] d = 5 -> "5" [] d = 6 -> "6" [] d = 7 -> "7"
      [] d = 8 -> "8" [] d = 9 -> "9"

\* s[i..j], empty when j < i
Slice(s, i, j) == IF j < i THEN <<>> ELSE SubSeq(s, i, j)

\* lit occurs in s starting at position i
HasPrefixAt(s, i, lit) ==
    /\ i + Len(lit) - 1 <= Len(s)
    /\ \A k \in 1..Len(lit) : s[i + k - 1] = lit[k]

\* the position after the longest run of digits of s that starts at i
RECURSIVE DigitsEnd(_, _)
DigitsEnd(s, i) ==
    IF i <= Len(s) /\ s[i] \in Digits THEN DigitsEnd(s, i + 1) ELSE i

(***************************************************************************)
(* The literal texts of the script.                                        *)
(***************************************************************************)
LitDefineMajor ==
    <<"#","d","e","f","i","n","e"," ","P","E","H","I","N","T","_","V","E",
      "R","S","I","O","N","_","M","A","J","O","R"," ">>

LitDefineMinor ==
    <<"#","d","e","f","i","n","e"," ","P","E","H","I","N","T","_","V","E",
      "R","S","I","O","N","_","M","I","N","O","R"," ">>

LitDefinePatch ==
    <<"#","d","e","f","i","n","e"," ","P","E","H","I","N","T","_","V","E",
      "R","S","I","O","N","_","P","A","T","C","H"," ">>

LitDefineString ==
    <<"#","d","e","f","i","n","e"," ","P","E","H","I","N","T","_","V","E",
      "R","S","I","O","N","_","S","T","R","I","N","G"," ","\"">>

LitDefineStringFull ==
    <<"#","d","e","f","i","n","e"," ","P","E","H","I","N","T","_","V","E",
      "R","S","I","O","N","_","S","T","R","I","N","G","_","F","U","L","L",
      " ","\"","v">>

LitProject ==
    <<"p","r","o","j","e","c","t","(","P","E","H","i","n","t"," ","V","E",
      "R","S","I","O","N"," ">>

LitVersion ==
    <<"V","E","R","S","I","O","N"," ">>

(***************************************************************************)
(* Regular expressions.  A pattern is a sequence of items, each a literal  *)
(* text or \d+.  In every pattern of the script a \d+ is followed by a     *)
(* non-digit literal or ends the pattern, so giving digits back never      *)
(* turns a failed match into a match and never is needed for one: the      *)
(* greedy match computed here is the match of the re module.               *)
(***************************************************************************)
Lit(t) == [k |-> "lit", s |-> t]

D == [k |-> "d+", s |-> <<>>]

\* r'#define PEHINT_VERSION_MAJOR \d+'
PatMajor == <<Lit(LitDefineMajor), D>>

\* r'#define PEHINT_VERSION_MINOR \d+'
PatMinor == <<Lit(LitDefineMinor), D>>

\* r'#define PEHINT_VERSION_PATCH \d+'
PatPatch == <<Lit(LitDefinePatch), D>>

\* PatString with the closing quote left out of the pattern
PatString_unclosed ==
    <<Lit(LitDefineString), D, Lit(<<".">>), D, Lit(<<".">>), D>>

\* r'#define PEHINT_VERSION_STRING "\d+\.\d+\.\d+"'
PatString ==
    <<Lit(LitDefineString), D, Lit(<<".">>), D, Lit(<<".">>), D, Lit(<<"\"">>)>>

\* r'#define PEHINT_VERSION_STRING_FULL "v\d+\.\d+\.\d+"'
PatStringFull ==
    <<Lit(LitDefineStringFull), D, Lit(<<".">>), D, Lit(<<".">>), D,
      Lit(<<"\"">>)>>

\* r'project\(PEHint VERSION \d+\.\d+\.\d+'
PatProject == <<Lit(LitProject), D, Lit(<<".">>), D, Lit(<<".">>), D>>

\* the position after the match of items k.. of pat at position i of s,
\* 0 when there is none
RECURSIVE MatchFrom(_, _, _, _)
MatchFrom(s, i, pat, k) ==
    IF k > Len(pat) THEN i
    ELSE IF pat[k].k = "lit"
         THEN IF HasPrefixAt(s, i, pat[k].s)
              THEN MatchFrom(s, i + Len(pat[k].s), pat, k + 1)
              ELSE 0
         ELSE LET e == DigitsEnd(s, i)
              IN  IF e = i THEN 0 ELSE MatchFrom(s, e, pat, k + 1)

\* every pattern of the script starts with a literal text: no match starts
\* at a character other than the first of that text
MatchAt(s, i, pat) ==
    IF s[i] # pat[1].s[1] THEN 0 ELSE MatchFrom(s, i, pat, 1)

\* re.search(pattern, s) is not None
re_search(pat, s) == \E i \in 1..Len(s) : MatchAt(s, i, pat) > 0

\* the least element of a non-empty set of numbers
Min(S) == CHOOSE x \in S : \A y \in S : x <= y

\* the matches are found left to right; the search resumes where a match
\* ended, so the matches replaced do not overlap
RECURSIVE SubFrom(_, _, _, _)
SubFrom(pat, repl, s, i) ==
    LET starts == {j \in i..Len(s) : MatchAt(s, j, pat) > 0}
    IN  IF starts = {} THEN Slice(s, i, Len(s))
        ELSE LET j == Min(starts)
             IN  Slice(s, i, j - 1) \o repl
                   \o SubFrom(pat, repl, s, MatchAt(s, j, pat))

\* re.sub with count=1: the first match only
re_sub_first(pat, repl, s) ==
    LET starts == {j \in 1..Len(s) : MatchAt(s, j, pat) > 0}
    IN  IF starts = {} THEN s
        ELSE LET j == Min(starts)
             IN  Slice(s, 1, j - 1) \o repl
                   \o Slice(s, MatchAt(s, j, pat), Len(s))

\* re.sub(pattern, repl, s): every leftmost non-overlapping match replaced
re_sub(pat, repl, s) == SubFrom(pat, repl, s, 1)

\* sub in s
Contains(sub, s) == \E i \in 1..(Len(s) + 1) : HasPrefixAt(s, i, sub)

(***************************************************************************)
(* int(), str() and str.split.                                             *)
(***************************************************************************)
RECURSIVE SplitFrom(_, _, _)
SplitFrom(s, i, cur) ==
    IF i > Len(s) THEN <<cur>>
    ELSE IF s[i] = "." THEN <<cur>> \o SplitFrom(s, i + 1, <<>>)
    ELSE SplitFrom(s, i + 1, Append(cur, s[i]))

\* s.split('.')
split(s) == SplitFrom(s, 1, <<>>)

RECURSIVE LStrip(_)
LStrip(s) ==
    IF s # <<>> /\ Head(s) \in Whitespace THEN LStrip(Tail(s)) ELSE s

RECURSIVE RStrip(_)
RStrip(s) ==
    IF s # <<>> /\ s[Len(s)] \in Whitespace
    THEN RStrip(Slice(s, 1, Len(s) - 1))
    ELSE s

\* the digits of an int literal: digits, single underscores between them
IsDigitPart(s) ==
    /\ s # <<>>
    /\ \A i \in 1..Len(s) : s[i] \in Digits \cup {"_"}
    /\ s[1] # "_"
    /\ s[Len(s)] # "_"
    /\ \A i \in 1..(Len(s) - 1) : ~(s[i] = "_" /\ s[i + 1] = "_")

RECURSIVE DigitsValue(_, _)
DigitsValue(s, acc) ==
    IF s = <<>> THEN acc
    ELSE IF Head(s) = "_" THEN DigitsValue(Tail(s), acc)
    ELSE DigitsValue(Tail(s), 10 * acc + DigitVal(Head(s)))

\* int(s): surrounding whitespace stripped, an optional sign, the digits;
\* ok is FALSE where int raises ValueError
int(s) ==
    LET t    == RStrip(LStrip(s))
        sign == IF t # <<>> /\ t[1] \in {"+", "-"} THEN t[1] ELSE ""
        body == IF sign = "" THEN t ELSE Tail(t)
    IN  IF IsDigitPart(body)
        THEN [ok |-> TRUE,
              val |-> IF sign = "-" THEN 0 - DigitsValue(body, 0)
                                    ELSE DigitsValue(body, 0)]
        ELSE [ok |-> FALSE, val |-> 0]

RECURSIVE NatStr(_)
NatStr(n) ==
    IF n < 10 THEN <<DigitChar(n)>>
    ELSE Append(NatStr(n \div 10), DigitChar(n % 10))

\* str(n), as the f-strings format an int
str(n) == IF n < 0 THEN <<"-">> \o NatStr(0 - n) ELSE NatStr(n)

\* f'{major}.{minor}.{patch}'
VersionText(major, minor, patch) ==
    str(major) \o <<".">> \o str(minor) \o <<".">> \o str(patch)

(***************************************************************************)
(* Files.  Path.read_text and Path.write_text open the file in text mode   *)
(* with newline=None: reading turns "\r\n" and "\r" into "\n", writing     *)
(* turns "\n" into os.linesep.                                             *)
(***************************************************************************)
NoFile == [exists |-> FALSE, data |-> <<>>]

File(d) == [exists |-> TRUE, data |-> d]

\* universal newlines, from position i of data on
RECURSIVE ReadFrom(_, _)
ReadFrom(data, i) ==
    LET crs == {j \in i..Len(data) : data[j] = "\r"}
    IN  IF crs = {} THEN Slice(data, i, Len(data))
        ELSE LET j == Min(crs)
                 n == IF j < Len(data) /\ data[j + 1] = "\n"
                      THEN j + 2 ELSE j + 1
             IN  Slice(data, i, j - 1) \o <<"\n">> \o ReadFrom(data, n)

read_text(data) == ReadFrom(data, 1)

RECURSIVE WriteFrom(_, _, _)
WriteFrom(text, sep, i) ==
    LET nls == {j \in i..Len(text) : text[j] = "\n"}
    IN  IF nls = {} THEN Slice(text, i, Len(text))
        ELSE LET j == Min(nls)
             IN  Slice(text, i, j - 1) \o sep \o WriteFrom(text, sep, j + 1)

write_text(text, sep) == WriteFrom(text, sep, 1)

\* the values of os.linesep
LineSeps == {<<"\n">>, <<"\r", "\n">>}


(***************************************************************************)
(* The state.                                                              *)
(***************************************************************************)
VARIABLES
    version,    \* args.version, a str
    dry_run,    \* args.dry_run
    linesep,    \* os.linesep of the platform
    header,     \* the file src/version.h
    cmake,      \* the file CMakeLists.txt
    pc,         \* the statement of main that runs next
    triple,     \* <<major, minor, patch>> once parsed, <<>> before
    log,        \* the file operations performed so far, in order
    out,        \* the messages printed so far, in order
    exit,       \* <<status>> once the process has ended, <<>> before
    calls,      \* the calls of an updater made by the call-level driver
    header0,    \* src/version.h when the process started
    cmake0      \* CMakeLists.txt when the process started

vars == <<version, dry_run, linesep, header, cmake, pc, triple, log, out,
          exit, calls, header0, cmake0>>

\* the entries of log
ReadEvent(name, f) ==
    [op |-> "read", file |-> name, text |-> read_text(f.data), data |-> f.data]

WriteEvent(name, content, sep) ==
    [op |-> "write", file |-> name, text |-> content,
     data |-> write_text(content, sep)]

OpenFailed(name) ==
    [op |-> "open_failed", file |-> name, text |-> <<>>, data |-> <<>>]

(***************************************************************************)
(* update_version_header.  The result of a call: the file afterwards, the  *)
(* file operations and messages of the call, and whether it raised.        *)
(***************************************************************************)
\* the five substitutions, applied in the order of the source
HeaderSubstitutions(major, minor, patch) ==
    << [pat |-> PatMajor, repl |-> LitDefineMajor \o str(major)],
       [pat |-> PatMinor, repl |-> LitDefineMinor \o str(minor)],
       [pat |-> PatPatch, repl |-> LitDefinePatch \o str(patch)],
       [pat |-> PatString,
        repl |-> LitDefineString \o VersionText(major, minor, patch)
                   \o <<"\"">>],
       [pat |-> PatStringFull,
        repl |-> LitDefineStringFull \o VersionText(major, minor, patch)
                   \o <<"\"">>] >>

RECURSIVE ApplySubstitutions(_, _, _)
ApplySubstitutions(subs, k, content) ==
    IF k > Len(subs) THEN content
    ELSE ApplySubstitutions(subs, k + 1,
                            re_sub(subs[k].pat, subs[k].repl, content))

\* update_version_header writing the content with a newline added
update_version_header_appends(f, major, minor, patch, sep) ==
    IF ~f.exists
    THEN [raised |-> TRUE, file |-> f,
          events |-> <<OpenFailed("header")>>, printed |-> <<>>]
    ELSE LET content == ApplySubstitutions(
                            HeaderSubstitutions(major, minor, patch), 1,
                            read_text(f.data)) \o <<"\n">>
         IN  [raised |-> FALSE,
              file |-> File(write_text(content, sep)),
              events |-> <<ReadEvent("header", f),
                           WriteEvent("header", content, sep)>>,
              printed |-> <<"Updated header">>]

update_version_header(f, major, minor, patch, sep) ==
    IF ~f.exists
    THEN [raised |-> TRUE, file |-> f,
          events |-> <<OpenFailed("header")>>, printed |-> <<>>]
    ELSE LET content == ApplySubstitutions(
                            HeaderSubstitutions(major, minor, patch), 1,
                            read_text(f.data))
         IN  [raised |-> FALSE,
              file |-> File(write_text(content, sep)),
              events |-> <<ReadEvent("header", f),
                           WriteEvent("header", content, sep)>>,
              printed |-> <<"Updated header">>]

(***************************************************************************)
(* update_cmake_version.                                                   *)
(***************************************************************************)
\* update_cmake_version without the return of the 'already correct' branch
update_cmake_version_no_return(f, major, minor, patch, sep) ==
    IF ~f.exists
    THEN [raised |-> TRUE, file |-> f,
          events |-> <<OpenFailed("cmake")>>, printed |-> <<>>]
    ELSE LET content == read_text(f.data)
             target  == VersionText(major, minor, patch)
             already == IF Contains(LitVersion \o target, content)
                        THEN <<"CMakeLists.txt already has correct version">>
                        ELSE <<>>
         IN  IF re_search(PatProject, content)
             THEN LET updated == re_sub(PatProject, LitProject \o target,
                                        content)
                  IN  [raised |-> FALSE,
                       file |-> File(write_text(updated, sep)),
                       events |-> <<ReadEvent("cmake", f),
                                    WriteEvent("cmake", updated, sep)>>,
                       printed |-> already \o <<"Updated CMakeLists.txt">>]
             ELSE [raised |-> FALSE, file |-> f,
                   events |-> <<ReadEvent("cmake", f)>>,
                   printed |-> already \o <<"No hardcoded version found">>]

update_cmake_version(f, major, minor, patch, sep) ==
    IF ~f.exists
    THEN [raised |-> TRUE, file |-> f,
          events |-> <<OpenFailed("cmake")>>, printed |-> <<>>]
    ELSE LET content == read_text(f.data)
             target  == VersionText(major, minor, patch)
         IN  IF Contains(LitVersion \o target, content)
             THEN [raised |-> FALSE, file |-> f,
                   events |-> <<ReadEvent("cmake", f)>>,
                   printed |-> <<"CMakeLists.txt already has correct version">>]
             ELSE IF re_search(PatProject, content)
             THEN LET updated == re_sub(PatProject, LitProject \o target,
                                        content)
                  IN  [raised |-> FALSE,
                       file |-> File(write_text(updated, sep)),
                       events |-> <<ReadEvent("cmake", f),
                                    WriteEvent("cmake", updated, sep)>>,
                       printed |-> <<"Updated CMakeLists.txt">>]
             ELSE [raised |-> FALSE, file |-> f,
                   events |-> <<ReadEvent("cmake", f)>>,
                   printed |-> <<"No hardcoded version found">>]

(***************************************************************************)
(* main.                                                                   *)
(***************************************************************************)
\* major, minor, patch = map(int, args.version.split('.')): ok is FALSE
\* where the statement raises ValueError (a segment int rejects, or a
\* number of segments other than three)
parse_version(v) ==
    LET segs == split(v)
    IN  IF Len(segs) = 3 /\ \A i \in 1..3 : int(segs[i]).ok
        THEN [ok |-> TRUE, val |-> [i \in 1..3 |-> int(segs[i]).val]]
        ELSE [ok |-> FALSE, val |-> <<>>]

main_parse ==
    /\ pc = "parse"
    /\ LET r == parse_version(version)
       IN  IF r.ok
           THEN /\ triple' = r.val
                /\ out' = Append(out, "Updating PEHint to version")
                /\ pc' = "check_header"
                /\ exit' = exit
           ELSE /\ triple' = triple
                /\ out' = Append(out, "Error: Version must be in format X.Y.Z")
                /\ pc' = "exited"
                /\ exit' = <<1>>
    /\ UNCHANGED <<version, dry_run, linesep, header, cmake, log, calls,
                   header0, cmake0>>

\* main_check_header with a plain return in place of sys.exit(1)
main_check_header_returns ==
    /\ pc = "check_header"
    /\ IF ~header.exists
       THEN /\ out' = Append(out, "Error: header not found")
            /\ pc' = "exited"
            /\ exit' = <<0>>
       ELSE /\ out' = out
            /\ pc' = "check_dry_run"
            /\ exit' = exit
    /\ UNCHANGED <<version, dry_run, linesep, header, cmake, triple, log,
                   calls, header0, cmake0>>

main_check_header ==
    /\ pc = "check_header"
    /\ IF ~header.exists
       THEN /\ out' = Append(out, "Error: header not found")
            /\ pc' = "exited"
            /\ exit' = <<1>>
       ELSE /\ out' = out
            /\ pc' = "check_dry_run"
            /\ exit' = exit
    /\ UNCHANGED <<version, dry_run, linesep, header, cmake, triple, log,
                   calls, header0, cmake0>>

\* main_check_dry_run without the return that ends the dry run
main_check_dry_run_falls_through ==
    /\ pc = "check_dry_run"
    /\ out' = IF dry_run
              THEN out \o <<"DRY RUN - No changes will be made",
                            "Would update header",
                            "Would check CMakeLists.txt">>
              ELSE out
    /\ pc' = "update_header"
    /\ exit' = exit
    /\ UNCHANGED <<version, dry_run, linesep, header, cmake, triple, log,
                   calls, header0, cmake0>>

\* main_check_dry_run going on to update_cmake_version, the call of
\* update_version_header left out
main_check_dry_run_skips_header ==
    /\ pc = "check_dry_run"
    /\ IF dry_run
       THEN /\ out' = out \o <<"DRY RUN - No changes will be made",
                               "Would update header",
                               "Would check CMakeLists.txt">>
            /\ pc' = "exited"
            /\ exit' = <<0>>
       ELSE /\ out' = out
            /\ pc' = "update_cmake"
            /\ exit' = exit
    /\ UNCHANGED <<version, dry_run, linesep, header, cmake, triple, log,
                   calls, header0, cmake0>>

main_check_dry_run ==
    /\ pc = "check_dry_run"
    /\ IF dry_run
       THEN /\ out' = out \o <<"DRY RUN - No changes will be made",
                               "Would update header",
                               "Would check CMakeLists.txt">>
            /\ pc' = "exited"
            /\ exit' = <<0>>
       ELSE /\ out' = out
            /\ pc' = "update_header"
            /\ exit' = exit
    /\ UNCHANGED <<version, dry_run, linesep, header, cmake, triple, log,
                   calls, header0, cmake0>>

\* an exception no statement catches: the traceback, then status 1
Uncaught == "Traceback"

main_update_header ==
    /\ pc = "update_header"
    /\ \E r \in {update_version_header(header, triple[1], triple[2],
                                      triple[3], linesep)} :
           /\ header' = r.file
           /\ log' = log \o r.events
           /\ IF r.raised
              THEN /\ out' = Append(out \o r.printed, Uncaught)
                   /\ pc' = "exited"
                   /\ exit' = <<1>>
              ELSE /\ out' = out \o r.printed
                   /\ pc' = "update_cmake"
                   /\ exit' = exit
    /\ UNCHANGED <<version, dry_run, linesep, cmake, triple, calls, header0,
                   cmake0>>

main_update_cmake ==
    /\ pc = "update_cmake"
    /\ \E r \in {update_cmake_version(cmake, triple[1], triple[2],
                                     triple[3], linesep)} :
           /\ cmake' = r.file
           /\ log' = log \o r.events
           /\ IF r.raised
              THEN /\ out' = Append(out \o r.printed, Uncaught)
                   /\ pc' = "exited"
                   /\ exit' = <<1>>
              ELSE /\ out' = out \o r.printed
                   /\ pc' = "summary"
                   /\ exit' = exit
    /\ UNCHANGED <<version, dry_run, linesep, header, triple, calls, header0,
                   cmake0>>

main_summary ==
    /\ pc = "summary"
    /\ out' = out \o <<"Version updated successfully",
                       "Remember to rebuild the project">>
    /\ pc' = "exited"
    /\ exit' = <<0>>
    /\ UNCHANGED <<version, dry_run, linesep, header, cmake, triple, log,
                   calls, header0, cmake0>>

Next ==
    \/ main_parse
    \/ main_check_header
    \/ main_check_dry_run
    \/ main_update_header
    \/ main_update_cmake
    \/ main_summary

(***************************************************************************)
(* Documents.                                                              *)
(***************************************************************************)
RECURSIVE Concat(_, _)
Concat(ps, k) == IF k > Len(ps) THEN <<>> ELSE ps[k] \o Concat(ps, k + 1)

\* the texts made of at most n of the fragments
Texts(fragments, n) ==
    {Concat(ps, 1) : ps \in UNION {[1..m -> fragments] : m \in 0..n}}

CRLF == <<"\r", "\n">>

LF == <<"\n">>

\* a version.h holding the five definitions
FullHeader ==
    LitDefineMajor \o <<"0">> \o LF
      \o LitDefineMinor \o <<"3">> \o LF
      \o LitDefinePatch \o <<"1">> \o LF
      \o LitDefineString \o <<"0", ".", "3", ".", "1", "\"">> \o LF
      \o LitDefineStringFull \o <<"0", ".", "3", ".", "1", "\"">> \o LF

\* a version.h holding none of them
PlainHeader == <<"#", "p", "r", "a", "g", "m", "a", " ", "o", "n", "c", "e">> \o CRLF

LitLanguages ==
    <<" ","L","A","N","G","U","A","G","E","S"," ","C","X","X",")">>

\* project(PEHint VERSION 0.3.1 LANGUAGES CXX)
CmakeOld == LitProject \o <<"0", ".", "3", ".", "1">> \o LitLanguages \o LF

\* project(PEHint VERSION 0.4.0 LANGUAGES CXX)
CmakeNew == LitProject \o <<"0", ".", "4", ".", "0">> \o LitLanguages \o LF

\* a CMakeLists.txt without a version clause
CmakePlain == <<"p","r","o","j","e","c","t","(","P","E","H","i","n","t",")">> \o LF

\* the version strings of the runs of Spec
SomeVersions ==
    { <<"0", ".", "4", ".", "0">>,
      <<"1", ".", "-", "2", ".", "1", "3">>,
      <<"0", ".", "4">>,
      <<"0", ".", "x", ".", "0">>,
      <<"0", ".", "4", ".", "0", ".", "1">>,
      <<"1", "0", ".", "0", ".", "7">> }

InitCommon ==
    /\ pc = "parse"
    /\ triple = <<>>
    /\ log = <<>>
    /\ out = <<>>
    /\ exit = <<>>
    /\ calls = 0
    /\ header0 = header
    /\ cmake0 = cmake

Init ==
    /\ version \in SomeVersions
    /\ dry_run \in BOOLEAN
    /\ linesep \in LineSeps
    /\ header \in {NoFile, File(FullHeader), File(PlainHeader)}
    /\ cmake \in {NoFile, File(CmakeOld), File(CmakeNew), File(CmakePlain)}
    /\ InitCommon

Spec == Init /\ [][Next]_vars

(***************************************************************************)
(* The parser on every short version string: the runs of main started on   *)
(* each string of at most MaxVerLen characters of VersionChars.            *)
(***************************************************************************)
VersionChars == {"0", "1", ".", "-", "+", "_", " ", "x"}

VersionStrings == UNION {[1..n -> VersionChars] : n \in 0..MaxVerLen}

InitParse ==
    /\ version \in VersionStrings
    /\ dry_run \in BOOLEAN
    /\ linesep = LF
    /\ header \in {NoFile, File(FullHeader)}
    /\ cmake = File(CmakeOld)
    /\ InitCommon

SpecParse == InitParse /\ [][Next]_vars

(***************************************************************************)
(* The updaters called on their own, as a caller holding a parsed triple   *)
(* does, at most MaxCalls times in a row with the same triple.             *)
(***************************************************************************)
Triples == {<<0, 4, 0>>, <<1, -2, 13>>}

call_update_version_header ==
    /\ pc = "call_header"
    /\ calls < MaxCalls
    /\ \E r \in {update_version_header(header, triple[1], triple[2],
                                      triple[3], linesep)} :
           /\ header' = r.file
           /\ log' = log \o r.events
           /\ calls' = calls + 1
           /\ IF r.raised
              THEN /\ out' = Append(out \o r.printed, Uncaught)
                   /\ pc' = "exited"
                   /\ exit' = <<1>>
              ELSE /\ out' = out \o r.printed
                   /\ pc' = pc
                   /\ exit' = exit
    /\ UNCHANGED <<version, dry_run, linesep, cmake, triple, header0, cmake0>>

call_update_cmake_version ==
    /\ pc = "call_cmake"
    /\ calls < MaxCalls
    /\ \E r \in {update_cmake_version(cmake, triple[1], triple[2],
                                     triple[3], linesep)} :
           /\ cmake' = r.file
           /\ log' = log \o r.events
           /\ calls' = calls + 1
           /\ IF r.raised
              THEN /\ out' = Append(out \o r.printed, Uncaught)
                   /\ pc' = "exited"
                   /\ exit' = <<1>>
              ELSE /\ out' = out \o r.printed
                   /\ pc' = pc
                   /\ exit' = exit
    /\ UNCHANGED <<version, dry_run, linesep, header, triple, header0, cmake0>>

InitCall ==
    /\ triple \in Triples
    /\ version = VersionText(triple[1], triple[2], triple[3])
    /\ dry_run = FALSE
    /\ linesep \in LineSeps
    /\ log = <<>>
    /\ out = <<>>
    /\ exit = <<>>
    /\ calls = 0
    /\ header0 = header
    /\ cmake0 = cmake

\* the fragments the header documents are made of
HeaderFragments ==
    { LitDefineMajor, LitDefineMinor, LitDefinePatch, LitDefineString,
      LitDefineStringFull, <<"1", "2">>, <<"0", ".", "3", ".", "1", "\"">>,
      CRLF, LF }

InitHeader ==
    /\ header \in {NoFile}
                    \cup {File(d) : d \in Texts(HeaderFragments, MaxHdrPieces)}
    /\ cmake = NoFile
    /\ pc = "call_header"
    /\ InitCall

SpecHeader == InitHeader /\ [][call_update_version_header]_vars

\* the fragments the build-config documents are made of
CmakeFragments ==
    { LitProject, LitVersion, LitLanguages, <<"0", ".", "3", ".", "1">>,
      <<"0", ".", "4", ".", "0">>, <<"2">>, CRLF }

InitCmake ==
    /\ cmake \in {NoFile}
                   \cup {File(d) : d \in Texts(CmakeFragments, MaxCmakePieces)}
    /\ header = NoFile
    /\ pc = "call_cmake"
    /\ InitCall

SpecCmake == InitCmake /\ [][call_update_cmake_version]_vars

(***************************************************************************)
(* Vocabulary of the properties.                                           *)
(***************************************************************************)
\* the greatest element of a non-empty set of numbers
Max(S) == CHOOSE x \in S : \A y \in S : x >= y

Printed(m) == \E k \in 1..Len(out) : out[k] = m

\* the positions in log of the operations op on file
Events(op, file) ==
    {i \in 1..Len(log) : log[i].op = op /\ log[i].file = file}

Writes == {i \in 1..Len(log) : log[i].op = "write"}

FilesUntouched == header = header0 /\ cmake = cmake0

\* v is a.b.c, each of a, b and c a non-empty run of digits
IsVersionShape(v) ==
    LET dots == {i \in 1..Len(v) : v[i] = "."}
    IN  /\ Cardinality(dots) = 2
        /\ \A i \in 1..Len(v) : i \notin dots => v[i] \in Digits
        /\ 1 \notin dots
        /\ Len(v) \notin dots
        /\ \A i \in dots : i + 1 \notin dots

\* the triple such a string denotes
ShapeTriple(v) ==
    LET dots == {i \in 1..Len(v) : v[i] = "."}
        d1   == Min(dots)
        d2   == Max(dots)
    IN  << DigitsValue(Slice(v, 1, d1 - 1), 0),
           DigitsValue(Slice(v, d1 + 1, d2 - 1), 0),
           DigitsValue(Slice(v, d2 + 1, Len(v)), 0) >>

\* the target version as the updaters format it
TargetText == VersionText(triple[1], triple[2], triple[3])

\* the positions where a project(PEHint VERSION X.Y.Z clause of t starts
ClauseStarts(t) == {p \in 1..Len(t) : MatchAt(t, p, PatProject) > 0}

\* the X.Y.Z of the clause of t that starts at p
ClauseVersion(t, p) ==
    Slice(t, p + Len(LitProject), MatchAt(t, p, PatProject) - 1)

\* a call of an updater that did not raise starts with its read: the k-th
\* such call is the k-th read in log
Rank(reads, i) == Cardinality({j \in reads : j <= i})

\* the call that read at position i of log went on to write
Wrote(i) == i < Len(log) /\ log[i + 1].op = "write"

\* the bytes of the file after the call that read at position i of log
DataAfter(reads, f, i) ==
    LET later == {j \in reads : j > i}
    IN  IF later = {} THEN f.data ELSE log[Min(later)].data

CmakeOutcomes ==
    { "CMakeLists.txt already has correct version",
      "Updated CMakeLists.txt",
      "No hardcoded version found" }

(***************************************************************************)
(* C1                                                                      *)
(***************************************************************************)
\* C1: once main has parsed the version string: if the string is a.b.c with
\* a, b, c non-negative integers, the triple is (a,b,c) and the run went on
\* (no format error); if it is anything else, the format error was printed,
\* the process exited with status 1 and no file was read or written.
C1_ParseContract ==
    pc # "parse" =>
        IF IsVersionShape(version)
        THEN /\ triple = ShapeTriple(version)
             /\ ~Printed("Error: Version must be in format X.Y.Z")
             /\ out # <<>> /\ out[1] = "Updating PEHint to version"
        ELSE /\ pc = "exited"
             /\ exit = <<1>>
             /\ out = <<"Error: Version must be in format X.Y.Z">>
             /\ log = <<>>
             /\ FilesUntouched

(***************************************************************************)
(* C2                                                                      *)
(***************************************************************************)
\* C2, as stated: for every valid version string, a run with --dry-run
\* never writes a file, leaves both files as they were and ends with exit
\* code 0.
C2_DryRunAsStated ==
    (dry_run /\ IsVersionShape(version)) =>
        /\ Writes = {}
        /\ FilesUntouched
        /\ pc = "exited" => exit = <<0>>

\* C2, amended: for every valid version string, a run with --dry-run never
\* writes a file and leaves both files as they were; it ends with exit code
\* 0 when src/version.h exists and with exit code 1 when it does not.
C2_DryRun ==
    (dry_run /\ IsVersionShape(version)) =>
        /\ Writes = {}
        /\ FilesUntouched
        /\ pc = "exited" => exit = IF header0.exists THEN <<0>> ELSE <<1>>

\* a dry run on a valid version and existing files has ended
C2_Witness ==
    /\ pc = "exited"
    /\ dry_run
    /\ IsVersionShape(version)
    /\ header0.exists
    /\ cmake0.exists
    /\ Printed("DRY RUN - No changes will be made")
    /\ exit = <<0>>

(***************************************************************************)
(* C3                                                                      *)
(***************************************************************************)
\* C3: for every valid version and either value of --dry-run, when
\* src/version.h does not exist the run writes no file, neither reads nor
\* writes CMakeLists.txt, does not create the header, and exits with 1.
C3_MissingHeader ==
    (IsVersionShape(version) /\ ~header0.exists) =>
        /\ Writes = {}
        /\ \A i \in 1..Len(log) : log[i].file # "cmake"
        /\ FilesUntouched
        /\ pc = "exited" => exit = <<1>>

\* a run on a valid version without src/version.h has ended
C3_Witness ==
    /\ pc = "exited"
    /\ IsVersionShape(version)
    /\ ~header0.exists
    /\ cmake0.exists
    /\ ~dry_run
    /\ Printed("Error: header not found")

(***************************************************************************)
(* C4                                                                      *)
(***************************************************************************)
\* C4: update_cmake_version reports 'already correct' only when a
\* project(PEHint VERSION X.Y.Z clause of the document states exactly the
\* target; and a document with a clause stating another version is
\* rewritten, so that on return no clause states another version.
C4_ShortCircuitOnClause ==
    LET reads == Events("read", "cmake")
    IN  \A i \in reads :
            LET R     == log[i].text
                after == read_text(DataAfter(reads, cmake, i))
            IN  /\ out[Rank(reads, i)]
                       = "CMakeLists.txt already has correct version"
                     => \E p \in ClauseStarts(R) :
                            ClauseVersion(R, p) = TargetText
                /\ (\E p \in ClauseStarts(R) :
                        ClauseVersion(R, p) # TargetText)
                     => /\ Wrote(i)
                        /\ \A p \in ClauseStarts(after) :
                               ClauseVersion(after, p) = TargetText

(***************************************************************************)
(* C5                                                                      *)
(***************************************************************************)
\* C5: a call of update_cmake_version on an existing file raises nothing
\* and prints exactly one of the three outcomes; it writes the file if and
\* only if the outcome is 'updated'; a document whose clause states the
\* target, and a document without a clause, is not written; a call that
\* does not write leaves the bytes of the file as they were.
\* (Stated of the latest call: every call is the latest in the state it
\* leads to.)
C5_WriteOnlyWhenUpdated ==
    LET reads == Events("read", "cmake")
    IN  /\ cmake0.exists =>
              /\ exit = <<>>
              /\ Len(out) = calls
              /\ Cardinality(reads) = calls
              /\ \A k \in 1..Len(out) : out[k] \in CmakeOutcomes
        /\ \A w \in Writes : w - 1 \in reads
        /\ (cmake0.exists /\ reads # {}) =>
              \E i \in {Max(reads)} :
              \E R \in {log[i].text} :
              \E M \in {ClauseStarts(R)} :
                  /\ Wrote(i) <=> out[Len(out)] = "Updated CMakeLists.txt"
                  /\ (\E p \in M : ClauseVersion(R, p) = TargetText)
                       => ~Wrote(i)
                  /\ M = {} => ~Wrote(i)
                  /\ ~Wrote(i) => cmake.data = log[i].data

\* a call on a document whose clause states the target has returned
C5_Witness ==
    /\ cmake0.exists
    /\ calls >= 1
    /\ \E i \in Events("read", "cmake") :
          /\ \E p \in ClauseStarts(log[i].text) :
                 ClauseVersion(log[i].text, p) = TargetText
          /\ ~Wrote(i)
          /\ cmake = cmake0

(***************************************************************************)
(* C6                                                                      *)
(***************************************************************************)
\* by how much the clauses that start in S, rewritten to a version of tlen
\* characters, move the text that follows them; ends[p] is the position
\* after the clause that starts at p
RECURSIVE ShiftSum(_, _, _)
ShiftSum(ends, tlen, S) ==
    IF S = {} THEN 0
    ELSE LET p == Min(S)
         IN  (tlen - (ends[p] - p - Len(LitProject)))
               + ShiftSum(ends, tlen, S \ {p})

\* W is R with the X.Y.Z of each clause replaced by T, every other
\* character kept, in its place relative to the clauses
OnlyTriplesReplaced(R, W, T) ==
    \E M \in {ClauseStarts(R)} :
    \E ends \in {[p \in M |-> MatchAt(R, p, PatProject)]} :
        LET InNum(j) == \E p \in M : p + Len(LitProject) <= j /\ j < ends[p]
            Shift(j) == ShiftSum(ends, Len(T), {p \in M : ends[p] <= j})
        IN  /\ Len(W) = Len(R) + Shift(Len(R) + 1)
            /\ \A j \in 1..Len(R) : ~InNum(j) => W[j + Shift(j)] = R[j]
            /\ \A p \in M : HasPrefixAt(W, p + Len(LitProject) + Shift(p), T)

C7_Idempotent ==
    LET ws == Events("write", "header")
    IN  /\ \A a, b \in ws : log[a].data = log[b].data
        /\ ws # {} => header.data = log[Max(ws)].data

\* the header was updated twice, and the first update changed it
C7_Witness ==
    /\ calls = 2
    /\ Cardinality(Events("write", "header")) = 2
    /\ header.data # header0.data
    /\ re_search(PatString, read_text(header0.data))

(***************************************************************************)
(* C8                                                                      *)
(***************************************************************************)
\* each substitution from the k-th on that finds no match in the content
\* it is applied to returns that content
RECURSIVE MissesKeep(_, _, _)
MissesKeep(subs, k, content) ==
    IF k > Len(subs) THEN TRUE
    ELSE \E next \in {re_sub(subs[k].pat, subs[k].repl, content)} :
            /\ next = content \/ re_search(subs[k].pat, content)
            /\ MissesKeep(subs, k + 1, next)

C9_ExitStatus ==
    pc = "exited" =>
        (exit # <<0>> <=> (triple = <<>> \/ ~header0.exists))

(***************************************************************************)
(* C10                                                                     *)
(***************************************************************************)
\* C10: no file is written before the version has parsed and the header's
\* existence check has passed; CMakeLists.txt is opened only after the
\* header has been written, so a run that reaches the build-config step,
\* one that fails there included, has written the header; and the success
\* summary is printed only after both updaters have returned.
C10_Ordering ==
    LET hw == Events("write", "header")
    IN  /\ pc \in {"parse", "check_header", "check_dry_run"} => log = <<>>
        /\ Writes # {} => triple # <<>> /\ header0.exists /\ ~dry_run
        /\ \A i \in 1..Len(log) :
              log[i].file = "cmake" => \E j \in hw : j < i
        /\ pc \in {"update_cmake", "summary"} => hw # {}
        /\ Printed("Version updated successfully") =>
              /\ hw # {}
              /\ \E i \in Events("read", "cmake") : \E j \in hw : j < i
              /\ \E k \in 1..Len(out) :
                    /\ out[k] \in CmakeOutcomes
                    /\ \E h \in 1..(k - 1) : out[h] = "Updated header"
                    /\ \E m \in (k + 1)..Len(out) :
                          out[m] = "Version updated successfully"

\* a run that failed on the missing CMakeLists.txt, the header rewritten
C10_Witness ==
    /\ pc = "exited"
    /\ exit = <<1>>
    /\ log # <<>>
    /\ log[Len(log)] = OpenFailed("cmake")
    /\ header # header0

=============================================================================
